---- MODULE Spec2Model ----
(***************************************************************************)
(* Model of AccessibilityAnalyzer (src/app.py).                            *)
(*                                                                         *)
(* The parsed document (self.soup) is a sequence of element nodes in       *)
(* document order (depth-first, children in source order).  Every node     *)
(* carries its tag name, its attributes (a function whose DOMAIN is the    *)
(* set of attribute keys that are present), the text that directly starts  *)
(* the element, and the index of its parent node (0 = the document root).  *)
(* Strings that the code inspects character by character (alt, style,      *)
(* text) are sequences of one-character strings; strings that the code     *)
(* only compares or tests for truthiness are TLA+ strings.                 *)
(*                                                                         *)
(* A finding is the dict appended to self.issues, restricted to the keys   *)
(* type, severity, description and location.  Formatted strings are        *)
(* sequences of their pieces, numbers rendered by Str.                     *)
(***************************************************************************)
EXTENDS Integers, Sequences, FiniteSets, TLC

\* Largest number of elements of a document.
MaxElems == 3
\* Largest number of analyze() invocations in one behaviour.
MaxCalls == 2

(***************************************************************************)
(* Python string primitives.                                               *)
(***************************************************************************)
\* The characters str.strip() removes (those c with c.isspace()):
\* U+0009..U+000D, U+001C..U+001F, U+0020, U+0085, U+00A0 and U+1680.
\* Python also removes U+2000..U+200A, U+2028, U+2029, U+202F, U+205F and
\* U+3000: those sixteen are the white space no string of this module can
\* hold, so markup that contains them is not among the inputs.
Whitespace ==
    {" ", "\t", "\n", "\r", "\f",
     "", "", "", "", "",
     "", " ", " "}

RECURSIVE LStrip(_)
LStrip(s) ==
    IF s # <<>> /\ Head(s) \in Whitespace THEN LStrip(Tail(s)) ELSE s

RECURSIVE RStrip(_)
RStrip(s) ==
    IF s # <<>> /\ s[Len(s)] \in Whitespace
    THEN RStrip(SubSeq(s, 1, Len(s) - 1))
    ELSE s

\* str.strip()
Strip(s) == RStrip(LStrip(s))

\* p in s, for strings as character sequences
Contains(s, p) ==
    \E i \in 1..(Len(s) + 1) :
        /\ i + Len(p) - 1 <= Len(s)
        /\ SubSeq(s, i, i + Len(p) - 1) = p

Digits == <<"0", "1", "2", "3", "4", "5", "6", "7", "8", "9">>

\* str(n) for a natural number: the decimal digits, most significant first
RECURSIVE StrDigits(_)
StrDigits(n) ==
    IF n < 10 THEN <<Digits[n + 1]>>
    ELSE Append(StrDigits(n \div 10), Digits[(n % 10) + 1])

\* An f-string piece holding a number
Str(n) == StrDigits(n)

(***************************************************************************)
(* BeautifulSoup primitives over the node sequence.                        *)
(***************************************************************************)
\* Elements the tree builder closes at once (its empty-element tags): they
\* never have children.
VoidTags ==
    {"area", "base", "br", "col", "embed", "hr", "img", "input", "keygen",
     "link", "menuitem", "meta", "param", "source", "track", "wbr",
     "basefont", "bgsound", "command", "frame", "image", "isindex",
     "nextid", "spacer"}

\* tag.get(key): <<>> for None, <<value>> otherwise
Get(node, key) ==
    IF key \in DOMAIN node.attrs THEN <<node.attrs[key]>> ELSE <<>>

\* tag.get(key, default)
GetDefault(node, key, default) ==
    IF key \in DOMAIN node.attrs THEN node.attrs[key] ELSE default

\* Python truthiness of an optional plain string (None and "" are falsy)
Truthy(opt) == opt # <<>> /\ opt[1] # ""

\* The proper ancestors of node i, nearest first
RECURSIVE Ancestors(_, _)
Ancestors(doc, i) ==
    IF doc[i].parent = 0 THEN <<>>
    ELSE <<doc[i].parent>> \o Ancestors(doc, doc[i].parent)

SeqToSet(s) == {s[k] : k \in 1..Len(s)}

IsDescendant(doc, i, a) == a \in SeqToSet(Ancestors(doc, i))

\* The nodes of doc in document order (the order find_all visits them in)
Indices(doc) == [i \in 1..Len(doc) |-> i]

\* soup.find_all(names): the nodes whose tag is one of names, document order
FindAll(doc, names) ==
    SelectSeq(Indices(doc), LAMBDA i : doc[i].tag \in names)

\* soup.find_all(name, {key: True}): tag matches and the key is present
FindAllWithAttr(doc, names, key) ==
    SelectSeq(Indices(doc),
              LAMBDA i : doc[i].tag \in names /\ key \in DOMAIN doc[i].attrs)

\* soup.find_all(style=True): any tag that has the key
FindAllHaving(doc, key) ==
    SelectSeq(Indices(doc), LAMBDA i : key \in DOMAIN doc[i].attrs)

\* soup.find(name, {key: value}): first match in document order, or <<>>
Find(doc, name, key, value) ==
    LET hits == SelectSeq(Indices(doc),
                          LAMBDA i : /\ doc[i].tag = name
                                     /\ key \in DOMAIN doc[i].attrs
                                     /\ doc[i].attrs[key] = value)
    IN  IF hits = <<>> THEN <<>> ELSE <<hits[1]>>

\* tag.find_parent(name): nearest proper ancestor with the tag, or <<>>
FindParent(doc, i, name) ==
    LET anc  == Ancestors(doc, i)
        hits == SelectSeq(anc, LAMBDA a : doc[a].tag = name)
    IN  IF hits = <<>> THEN <<>> ELSE <<hits[1]>>

\* tag.find_all(name): descendants of node t with the tag, document order
FindAllIn(doc, t, name) ==
    SelectSeq(Indices(doc),
              LAMBDA i : doc[i].tag = name /\ IsDescendant(doc, i, t))

\* tag.find(name): first descendant of node t with the tag, or <<>>
FindIn(doc, t, name) ==
    LET hits == FindAllIn(doc, t, name)
    IN  IF hits = <<>> THEN <<>> ELSE <<hits[1]>>

\* tag.get_text(): the text of the subtree, document order
RECURSIVE TextFrom(_, _, _)
TextFrom(doc, t, i) ==
    IF i > Len(doc) THEN <<>>
    ELSE (IF i = t \/ IsDescendant(doc, i, t) THEN doc[i].text ELSE <<>>)
         \o TextFrom(doc, t, i + 1)

GetText(doc, t) == TextFrom(doc, t, t)

\* The dict appended to self.issues
Issue(type, severity, description, location) ==
    [type |-> type, severity |-> severity,
     description |-> description, location |-> location]

\* The concatenation of a sequence of sequences: what the iterations of a
\* for loop append to self.issues, in iteration order
RECURSIVE Flatten(_)
Flatten(ss) == IF ss = <<>> THEN <<>> ELSE Head(ss) \o Flatten(Tail(ss))


\* sep.join(parts), as a sequence of pieces
RECURSIVE Join(_, _)
Join(parts, sep) ==
    IF Len(parts) <= 1 THEN parts
    ELSE <<Head(parts), sep>> \o Join(Tail(parts), sep)

(***************************************************************************)
(* The seven checks: the issues one run of each appends to self.issues.    *)
(***************************************************************************)
\* check_images numbering the images from 0
check_images_body_zero_based(doc, i, img) ==
    LET alt == Get(doc[img], "alt")
    IN  IF alt = <<>>
        THEN <<Issue("Missing Alt Text", "High",
                     <<"Image missing alt attribute">>,
                     <<"Image ">> \o Str(i))>>
        ELSE IF Strip(alt[1]) = <<>>
        THEN <<Issue("Empty Alt Text", "Low",
                     <<"Image has empty alt attribute">>,
                     <<"Image ">> \o Str(i))>>
        ELSE <<>>

\* One iteration of the loop of check_images
check_images_body(doc, i, img) ==
    LET alt == Get(doc[img], "alt")
    IN  IF alt = <<>>
        THEN <<Issue("Missing Alt Text", "High",
                     <<"Image missing alt attribute">>,
                     <<"Image ">> \o Str(i + 1))>>
        ELSE IF Strip(alt[1]) = <<>>
        THEN <<Issue("Empty Alt Text", "Low",
                     <<"Image has empty alt attribute">>,
                     <<"Image ">> \o Str(i + 1))>>
        ELSE <<>>

check_images_issues(doc) ==
    LET items == FindAll(doc, {"img"})
    IN  Flatten([k \in 1..Len(items) |->
                    check_images_body(doc, k - 1, items[k])])

HeadingTags == {"h1", "h2", "h3", "h4", "h5", "h6"}

\* int(heading.name[1])
HeadingLevel(tag) ==
    CASE tag = "h1" -> 1 [] tag = "h2" -> 2 [] tag = "h3" -> 3
      [] tag = "h4" -> 4 [] tag = "h5" -> 5 [] tag = "h6" -> 6

\* The value of prev_level when the loop reaches headings[k]
PrevLevel(doc, headings, k) ==
    IF k = 1 THEN 0 ELSE HeadingLevel(doc[headings[k - 1]].tag)

\* The skip test without the "+ 1": every increase of level is reported
heading_skip_body_any_increase(doc, headings, k) ==
    LET prev_level    == PrevLevel(doc, headings, k)
        current_level == HeadingLevel(doc[headings[k]].tag)
    IN  IF prev_level > 0 /\ current_level > prev_level
        THEN <<Issue("Heading Level Skip", "Medium",
                     <<"Heading jumps from h">> \o Str(prev_level)
                         \o <<" to h">> \o Str(current_level),
                     <<"Heading ">> \o Str(k))>>
        ELSE <<>>

\* One iteration of the heading level skip loop
heading_skip_body(doc, headings, k) ==
    LET prev_level    == PrevLevel(doc, headings, k)
        current_level == HeadingLevel(doc[headings[k]].tag)
    IN  IF prev_level > 0 /\ current_level > prev_level + 1
        THEN <<Issue("Heading Level Skip", "Medium",
                     <<"Heading jumps from h">> \o Str(prev_level)
                         \o <<" to h">> \o Str(current_level),
                     <<"Heading ">> \o Str(k))>>
        ELSE <<>>

\* The h1 count branch of check_headings
h1_count_issues(doc) ==
    LET h1_count == Len(FindAll(doc, {"h1"}))
    IN  IF h1_count = 0
        THEN <<Issue("Missing H1", "High",
                     <<"No h1 element found">>, <<"Document head">>)>>
        ELSE IF h1_count > 1
        THEN <<Issue("Multiple H1", "Medium",
                     <<"Found ">> \o Str(h1_count) \o <<" h1 elements">>,
                     <<"Multiple locations">>)>>
        ELSE <<>>

\* check_headings without the early return after No Headings
check_headings_issues_no_return(doc) ==
    LET headings == FindAll(doc, HeadingTags)
    IN  (IF headings = <<>>
         THEN <<Issue("No Headings", "High",
                      <<"No heading elements found">>, <<"Entire document">>)>>
         ELSE <<>>)
        \o h1_count_issues(doc)
        \o Flatten([k \in 1..Len(headings) |->
                       heading_skip_body(doc, headings, k)])

check_headings_issues(doc) ==
    LET headings == FindAll(doc, HeadingTags)
    IN  IF headings = <<>>
        THEN <<Issue("No Headings", "High",
                     <<"No heading elements found">>, <<"Entire document">>)>>
        ELSE h1_count_issues(doc)
             \o Flatten([k \in 1..Len(headings) |->
                            heading_skip_body(doc, headings, k)])

\* has_label when only a label earlier in the document is found
HasLabel_preceding_only(doc, input_elem) ==
    LET input_id == Get(doc[input_elem], "id")
        label    == IF Truthy(input_id)
                    THEN Find(doc, "label", "for", input_id[1]) ELSE <<>>
    IN  \/ label # <<>> /\ label[1] < input_elem
        \/ FindParent(doc, input_elem, "label") # <<>>

\* has_label after the two label lookups of check_form_labels
HasLabel(doc, input_elem) ==
    LET input_id == Get(doc[input_elem], "id")
    IN  \/ /\ Truthy(input_id)
           /\ Find(doc, "label", "for", input_id[1]) # <<>>
        \/ FindParent(doc, input_elem, "label") # <<>>

\* One iteration of the loop of check_form_labels
check_form_labels_body(doc, i, input_elem) ==
    LET input_type      == GetDefault(doc[input_elem], "type", "text")
        aria_label      == Get(doc[input_elem], "aria-label")
        aria_labelledby == Get(doc[input_elem], "aria-labelledby")
    IN  IF input_type \in {"hidden", "submit", "button"} THEN <<>>
        ELSE IF /\ ~HasLabel(doc, input_elem)
                /\ ~Truthy(aria_label)
                /\ ~Truthy(aria_labelledby)
        THEN <<Issue("Unlabeled Input", "High",
                     <<doc[input_elem].tag, " element lacks proper labeling">>,
                     <<"Form input ">> \o Str(i + 1))>>
        ELSE <<>>

check_form_labels_issues(doc) ==
    LET items == FindAll(doc, {"input", "textarea", "select"})
    IN  Flatten([k \in 1..Len(items) |->
                    check_form_labels_body(doc, k - 1, items[k])])

\* clickable_spans + clickable_divs
ClickableElements_spans_first(doc) ==
    FindAllWithAttr(doc, {"span"}, "onclick")
        \o FindAllWithAttr(doc, {"div"}, "onclick")

\* clickable_divs + clickable_spans
ClickableElements(doc) ==
    FindAllWithAttr(doc, {"div"}, "onclick")
        \o FindAllWithAttr(doc, {"span"}, "onclick")

\* issues_found when only an absent tabindex counts as keyboard inaccessible
IssuesFound_tabindex_absent_only(node) ==
    LET role     == Get(node, "role")
        tabindex == Get(node, "tabindex")
    IN  (IF ~Truthy(role) \/ role[1] \notin {"button", "link"}
         THEN <<"missing appropriate role">> ELSE <<>>)
        \o (IF tabindex = <<>>
            THEN <<"not keyboard accessible">> ELSE <<>>)

\* issues_found of one iteration of check_clickable_elements
IssuesFound(node) ==
    LET role     == Get(node, "role")
        tabindex == Get(node, "tabindex")
    IN  (IF ~Truthy(role) \/ role[1] \notin {"button", "link"}
         THEN <<"missing appropriate role">> ELSE <<>>)
        \o (IF tabindex = <<>> \/ tabindex[1] = "-1"
            THEN <<"not keyboard accessible">> ELSE <<>>)

\* One iteration of the loop of check_clickable_elements
check_clickable_elements_body(doc, i, elem) ==
    LET issues_found == IssuesFound(doc[elem])
    IN  IF issues_found # <<>>
        THEN <<Issue("Non-semantic Clickable", "High",
                     <<"Clickable ", doc[elem].tag, " element with issues: ">>
                         \o Join(issues_found, ", "),
                     <<"Clickable element ">> \o Str(i + 1))>>
        ELSE <<>>

check_clickable_elements_issues(doc) ==
    LET items == ClickableElements(doc)
    IN  Flatten([k \in 1..Len(items) |->
                    check_clickable_elements_body(doc, k - 1, items[k])])

\* The substrings check_color_contrast looks for
ColorColon == <<"c", "o", "l", "o", "r", ":">>
Background == <<"b", "a", "c", "k", "g", "r", "o", "u", "n", "d">>

\* One iteration of the loop of check_color_contrast
check_color_contrast_body(doc, i, elem) ==
    LET style == GetDefault(doc[elem], "style", <<>>)
    IN  IF Contains(style, ColorColon) /\ Contains(style, Background)
        THEN <<Issue("Potential Contrast Issue", "Medium",
                     <<"Element has custom colors that may have contrast issues">>,
                     <<"Styled element ">> \o Str(i + 1))>>
        ELSE <<>>

check_color_contrast_issues(doc) ==
    LET items == FindAllHaving(doc, "style")
    IN  Flatten([k \in 1..Len(items) |->
                    check_color_contrast_body(doc, k - 1, items[k])])

\* One iteration of the loop of check_links
check_links_body(doc, i, link) ==
    LET href == Get(doc[link], "href")
        text == Strip(GetText(doc, link))
    IN  (IF ~Truthy(href)
         THEN <<Issue("Link Without Href", "Medium",
                      <<"Link element missing href attribute">>,
                      <<"Link ">> \o Str(i + 1))>>
         ELSE <<>>)
        \o (IF text = <<>> /\ ~Truthy(Get(doc[link], "aria-label"))
            THEN <<Issue("Empty Link Text", "High",
                         <<"Link has no accessible text">>,
                         <<"Link ">> \o Str(i + 1))>>
            ELSE <<>>)

check_links_issues(doc) ==
    LET items == FindAll(doc, {"a"})
    IN  Flatten([k \in 1..Len(items) |->
                    check_links_body(doc, k - 1, items[k])])

\* check_tables writing the severity of a missing caption in lower case
check_tables_body_lower_case(doc, i, table) ==
    LET headers == FindAllIn(doc, table, "th")
        caption == FindIn(doc, table, "caption")
    IN  (IF headers = <<>>
         THEN <<Issue("Table Without Headers", "Medium",
                      <<"Table missing header cells (th elements)">>,
                      <<"Table ">> \o Str(i + 1))>>
         ELSE <<>>)
        \o (IF caption = <<>>
            THEN <<Issue("Table Without Caption", "low",
                         <<"Table missing caption element">>,
                         <<"Table ">> \o Str(i + 1))>>
            ELSE <<>>)

\* One iteration of the loop of check_tables
check_tables_body(doc, i, table) ==
    LET headers == FindAllIn(doc, table, "th")
        caption == FindIn(doc, table, "caption")
    IN  (IF headers = <<>>
         THEN <<Issue("Table Without Headers", "Medium",
                      <<"Table missing header cells (th elements)">>,
                      <<"Table ">> \o Str(i + 1))>>
         ELSE <<>>)
        \o (IF caption = <<>>
            THEN <<Issue("Table Without Caption", "Low",
                         <<"Table missing caption element">>,
                         <<"Table ">> \o Str(i + 1))>>
            ELSE <<>>)

check_tables_issues(doc) ==
    LET items == FindAll(doc, {"table"})
    IN  Flatten([k \in 1..Len(items) |->
                    check_tables_body(doc, k - 1, items[k])])

(***************************************************************************)
(* The caller's severity filters (main).                                   *)
(***************************************************************************)
\* [issue for issue in issues if issue['severity'] == severity]
issues_of_severity(fs, severity) ==
    SelectSeq(fs, LAMBDA issue : issue.severity = severity)

high_issues(fs) == issues_of_severity(fs, "High")
medium_issues(fs) == issues_of_severity(fs, "Medium")
low_issues(fs) == issues_of_severity(fs, "Low")

(***************************************************************************)
(* The analyzer as a state machine.                                        *)
(***************************************************************************)
VARIABLES
    soup,      \* self.soup: the parsed markup
    issues,    \* self.issues
    pc,        \* "idle" (analyze() not yet called on this instance), the
               \* statement of analyze() that runs next, or "done" (returned)
    base,      \* len(self.issues) when the running analyze() was entered
    results    \* the lists analyze() has returned so far, as seen at return

vars == <<soup, issues, pc, base, results>>

\* An element of the parsed tree
Node(e, parent) ==
    [tag |-> e.tag, attrs |-> e.attrs, text |-> e.text, parent |-> parent]

\* A catalogue entry: an element that is not yet placed in a tree
Elem(tag, attrs, text) == [tag |-> tag, attrs |-> attrs, text |-> text]

NoAttrs == <<>>
NoText == <<>>

\* A parent precedes its children, is no void element, and the sequence is
\* the depth-first order of the tree
WellFormed(doc) ==
    /\ \A i \in 1..Len(doc) : doc[i].parent < i
    /\ \A i \in 1..Len(doc) :
          doc[i].parent # 0 =>
              /\ doc[doc[i].parent].tag \notin VoidTags
              /\ \/ doc[i].parent = i - 1
                 \/ IsDescendant(doc, i - 1, doc[i].parent)

\* __init__ on markup whose tree has at most MaxElems elements of cat; only
\* the entries of cat at the positions in nesting are given children
InitOver(cat, nesting) ==
    /\ \E n \in 0..MaxElems :
         \E cs \in [1..n -> 1..Len(cat)], ps \in [1..n -> 0..(MaxElems - 1)] :
            LET doc == [i \in 1..n |-> Node(cat[cs[i]], ps[i])]
            IN  /\ WellFormed(doc)
                /\ \A i \in 1..n : ps[i] # 0 => cs[ps[i]] \in nesting
                /\ soup = doc
    /\ issues = <<>>
    /\ pc = "idle"
    /\ base = 0
    /\ results = <<>>

\* AccessibilityAnalyzer(url, html_content) on the same markup again
Construct ==
    /\ pc = "done"
    /\ issues' = <<>>
    /\ pc' = "idle"
    /\ base' = 0
    /\ UNCHANGED <<soup, results>>

\* analyze() is entered
analyze ==
    /\ pc \in {"idle", "done"}
    /\ Len(results) < MaxCalls
    /\ pc' = "check_images"
    /\ base' = Len(issues)
    /\ UNCHANGED <<soup, issues, results>>

Step(here, found, next) ==
    /\ pc = here
    /\ issues' = issues \o found
    /\ pc' = next
    /\ UNCHANGED <<soup, base, results>>

check_images ==
    Step("check_images", check_images_issues(soup), "check_headings")

check_headings ==
    Step("check_headings", check_headings_issues(soup), "check_form_labels")

check_form_labels ==
    Step("check_form_labels", check_form_labels_issues(soup),
         "check_clickable_elements")

check_clickable_elements ==
    Step("check_clickable_elements", check_clickable_elements_issues(soup),
         "check_color_contrast")

check_color_contrast ==
    Step("check_color_contrast", check_color_contrast_issues(soup),
         "check_links")

check_links ==
    Step("check_links", check_links_issues(soup), "check_tables")

check_tables ==
    Step("check_tables", check_tables_issues(soup), "return")

\* return self.issues
analyze_return ==
    /\ pc = "return"
    /\ results' = Append(results, issues)
    /\ pc' = "done"
    /\ UNCHANGED <<soup, issues, base>>

Next ==
    \/ Construct
    \/ analyze
    \/ check_images
    \/ check_headings
    \/ check_form_labels
    \/ check_clickable_elements
    \/ check_color_contrast
    \/ check_links
    \/ check_tables
    \/ analyze_return

(***************************************************************************)
(* Inputs.                                                                 *)
(***************************************************************************)
ImageElems == <<
    Elem("img", [src |-> "a.png"], NoText),
    Elem("img", [alt |-> <<>>], NoText),
    Elem("img", [alt |-> <<" ", "\t", " ">>], NoText),
    Elem("img", [alt |-> <<" ", "x">>], NoText),
    Elem("img", [alt |-> <<"x", "\n">>], NoText),
    Elem("p", NoAttrs, <<"t">>) >>

InitImages == InitOver(ImageElems, {6})
SpecImages == InitImages /\ [][Next]_vars

HeadingElems == <<
    Elem("h1", NoAttrs, <<"a">>),
    Elem("h2", NoAttrs, <<"b">>),
    Elem("h3", NoAttrs, <<"c">>),
    Elem("h4", NoAttrs, NoText),
    Elem("h6", NoAttrs, <<"d">>),
    Elem("p", NoAttrs, <<"t">>) >>

InitHeadings == InitOver(HeadingElems, {1, 2, 6})
SpecHeadings == InitHeadings /\ [][Next]_vars

LabelForElems == <<
    Elem("input", [id |-> "x"], NoText),
    Elem("input", [id |-> "x", type |-> "password", name |-> "pw"], NoText),
    Elem("input", [id |-> "y"], NoText),
    Elem("label", [for |-> "x"], <<"X">>),
    Elem("label", [for |-> "z"], <<"Z">>),
    Elem("p", NoAttrs, NoText) >>

InitLabelFor == InitOver(LabelForElems, {4, 5, 6})
SpecLabelFor == InitLabelFor /\ [][Next]_vars

FormElems == <<
    Elem("input", NoAttrs, NoText),
    Elem("input", [type |-> "text", name |-> "q"], NoText),
    Elem("input", [type |-> "hidden"], NoText),
    Elem("input", [type |-> "submit"], NoText),
    Elem("input", [id |-> "x"], NoText),
    Elem("input", [id |-> ""], NoText),
    Elem("input", ("aria-label" :> ""), NoText),
    Elem("input", ("aria-label" :> "Name"), NoText),
    Elem("input", ("aria-labelledby" :> ""), NoText),
    Elem("textarea", ("aria-labelledby" :> "t"), NoText),
    Elem("textarea", [type |-> "button"], NoText),
    Elem("select", NoAttrs, NoText),
    Elem("label", [for |-> "x"], <<"X">>),
    Elem("label", [for |-> ""], NoText),
    Elem("label", NoAttrs, <<"L">>) >>

InitForms == InitOver(FormElems, {10, 12, 13, 15})
SpecForms == InitForms /\ [][Next]_vars

LinkElems == <<
    Elem("a", NoAttrs, NoText),
    Elem("a", NoAttrs, <<"g", "o">>),
    Elem("a", [href |-> ""], <<"g", "o">>),
    Elem("a", [href |-> "/u"], <<" ", "\n", "">>),
    Elem("a", [href |-> "/u"], <<" ", "g", "o">>),
    Elem("a", (("href" :> "/u") @@ ("aria-label" :> "")), NoText),
    Elem("a", (("href" :> "/u") @@ ("aria-label" :> "Go")), NoText),
    Elem("a", ("aria-label" :> "Go"), NoText),
    Elem("span", NoAttrs, <<"s">>),
    Elem("img", [alt |-> <<"i">>], NoText) >>

InitLinks == InitOver(LinkElems, {1, 4, 7, 9})
SpecLinks == InitLinks /\ [][Next]_vars

TableElems == <<
    Elem("table", NoAttrs, NoText),
    Elem("caption", NoAttrs, <<"c">>),
    Elem("th", NoAttrs, <<"h">>),
    Elem("td", NoAttrs, <<"d">>),
    Elem("h1", NoAttrs, <<"t">>) >>

InitTables == InitOver(TableElems, {1, 4})
SpecTables == InitTables /\ [][Next]_vars

ClickableElems == <<
    Elem("div", [onclick |-> "f()"], <<"a">>),
    Elem("div", [onclick |-> "", role |-> "button", tabindex |-> "0"], NoText),
    Elem("div", [role |-> "button"], NoText),
    Elem("span", [onclick |-> "f()", role |-> "link", tabindex |-> "-1"], NoText),
    Elem("span", [onclick |-> "f()", role |-> "menu", tabindex |-> "1"], NoText),
    Elem("span", [onclick |-> "f()", role |-> "", tabindex |-> "0"], NoText),
    Elem("span", NoAttrs, <<"s">>) >>

InitClickable == InitOver(ClickableElems, {1, 4})
SpecClickable == InitClickable /\ [][Next]_vars

\* "color:r" and "color:r;background"
StyleColor == ColorColon \o <<"r">>
StyleBoth == StyleColor \o <<";">> \o Background

MixedElems == <<
    Elem("img", [src |-> "a.png"], NoText),
    Elem("input", [name |-> "q"], NoText),
    Elem("div", [onclick |-> "f()"], <<"a">>),
    Elem("span", [onclick |-> "g()", style |-> StyleBoth], NoText),
    Elem("a", NoAttrs, NoText),
    Elem("table", NoAttrs, NoText),
    Elem("h3", [style |-> StyleColor], <<"t">>) >>

\* Elements that between them give findings of all thirteen types
SeverityElems == <<
    Elem("img", [src |-> "a.png"], NoText),
    Elem("img", [alt |-> <<" ">>], NoText),
    Elem("h1", NoAttrs, <<"t">>),
    Elem("h3", NoAttrs, <<"u">>),
    Elem("input", [name |-> "q"], NoText),
    Elem("div", [onclick |-> "f()", style |-> StyleBoth], <<"a">>),
    Elem("a", NoAttrs, NoText),
    Elem("table", NoAttrs, NoText) >>

InitSeverity == InitOver(SeverityElems, {6, 8})
SpecSeverity == InitSeverity /\ [][Next]_vars

InitMixed == InitOver(MixedElems, {3, 6})
SpecMixed == InitMixed /\ [][Next]_vars
Spec == SpecMixed

(***************************************************************************)
(* Vocabulary of the properties.                                           *)
(***************************************************************************)
\* The statements of analyze() in execution order
Order == <<"check_images", "check_headings", "check_form_labels",
           "check_clickable_elements", "check_color_contrast",
           "check_links", "check_tables", "return", "done">>

Pos(p) == IF p = "idle" THEN 0 ELSE CHOOSE k \in 1..Len(Order) : Order[k] = p

\* The check has run in the current (or just returned) invocation
HasRun(check) == Pos(pc) > Pos(check)

\* What the current (or just returned) invocation has appended so far
Run == SubSeq(issues, base + 1, Len(issues))

OfTypes(fs, types) == SelectSeq(fs, LAMBDA f : f.type \in types)

Count(fs, P(_)) == Cardinality({k \in 1..Len(fs) : P(fs[k])})

\* The n-th element, in document order, among those with a tag of tags
Members(doc, tags) == {i \in 1..Len(doc) : doc[i].tag \in tags}
Nth(doc, tags, n) ==
    CHOOSE i \in Members(doc, tags) :
        Cardinality({j \in Members(doc, tags) : j <= i}) = n

Label(prefix, n) == <<prefix>> \o Str(n)

\* Every character is white space (so also the empty string)
Blank(s) == \A k \in 1..Len(s) : s[k] \in Whitespace

(***************************************************************************)
(* C1: every img without an alt key gives exactly one Missing Alt Text     *)
(* finding of severity High, every img whose alt is empty or white space   *)
(* exactly one Empty Alt Text finding of severity Low, any other img none; *)
(* the location is "Image n", n the 1-based position among all img         *)
(* elements, and the findings come in document order.                      *)
(***************************************************************************)
ImageTypes == {"Missing Alt Text", "Empty Alt Text"}

ImageVerdict(node) ==
    IF "alt" \notin DOMAIN node.attrs THEN "Missing Alt Text"
    ELSE IF Blank(node.attrs["alt"]) THEN "Empty Alt Text"
    ELSE "none"

C1_Images ==
    HasRun("check_images") =>
        LET fs == OfTypes(Run, ImageTypes)
            N  == Cardinality(Members(soup, {"img"}))
            At(n) == {k \in 1..Len(fs) : fs[k].location = Label("Image ", n)}
        IN  /\ \A k \in 1..Len(fs) : \E n \in 1..N : k \in At(n)
            /\ \A n \in 1..N :
                  LET v == ImageVerdict(soup[Nth(soup, {"img"}, n)])
                  IN  /\ Cardinality(At(n)) = IF v = "none" THEN 0 ELSE 1
                      /\ \A k \in At(n) :
                            /\ fs[k].type = v
                            /\ fs[k].severity =
                                  IF v = "Missing Alt Text" THEN "High" ELSE "Low"
            /\ \A n, m \in 1..N : \A k \in At(n), j \in At(m) :
                  n < m => k < j

\* Three images: missing alt, a described one, and a white-space alt that is
\* reported as "Image 3"
C1_Witness ==
    /\ pc = "done"
    /\ LET fs == OfTypes(Run, ImageTypes)
       IN  /\ Len(fs) = 2
           /\ fs[1].type = "Missing Alt Text"
           /\ fs[2].type = "Empty Alt Text"
           /\ fs[2].location = Label("Image ", 3)
           /\ \E i \in 1..Len(soup) :
                 /\ soup[i].tag = "img"
                 /\ "alt" \in DOMAIN soup[i].attrs
                 /\ soup[i].attrs["alt"] # <<>>
                 /\ Blank(soup[i].attrs["alt"])

(***************************************************************************)
(* C2: a document without any h1..h6 gives exactly one No Headings finding *)
(* (High, "Entire document") and no Missing H1, Multiple H1 or Heading     *)
(* Level Skip finding; a document with a heading gives no No Headings      *)
(* finding.                                                                *)
(***************************************************************************)
HeadingTypes ==
    {"No Headings", "Missing H1", "Multiple H1", "Heading Level Skip"}

C2_NoHeadings ==
    HasRun("check_headings") =>
        LET hs == OfTypes(Run, HeadingTypes)
        IN  IF Members(soup, HeadingTags) = {}
            THEN /\ Len(hs) = 1
                 /\ hs[1].type = "No Headings"
                 /\ hs[1].severity = "High"
                 /\ hs[1].location = <<"Entire document">>
            ELSE \A k \in 1..Len(hs) : hs[k].type # "No Headings"

\* analyze() has returned for a document that has elements but no heading
C2_Witness ==
    /\ pc = "done"
    /\ Len(soup) >= 2
    /\ Members(soup, HeadingTags) = {}
    /\ \E k \in 1..Len(Run) : Run[k].type = "No Headings"

(***************************************************************************)
(* C3: a Heading Level Skip finding (Medium, "h{prev} to h{cur}") is       *)
(* emitted for exactly the headings that have a predecessor and whose      *)
(* level exceeds the predecessor's by more than 1.  h1,h3 gives exactly    *)
(* one skip "h1 to h3"; h1,h2,h1 gives Multiple H1 with count 2 and no     *)
(* skip.                                                                   *)
(***************************************************************************)
HeadingNames == <<"h1", "h2", "h3", "h4", "h5", "h6">>

LevelOf(tag) == CHOOSE n \in 1..6 : HeadingNames[n] = tag

\* The tags of the headings in document order
HeadingSeq ==
    [n \in 1..Cardinality(Members(soup, HeadingTags)) |->
        soup[Nth(soup, HeadingTags, n)].tag]

Jump(from, to) ==
    <<"Heading jumps from h", Digits[from + 1], " to h", Digits[to + 1]>>

C3_LevelSkips ==
    HasRun("check_headings") =>
        LET hseq  == HeadingSeq
            skips == OfTypes(Run, {"Heading Level Skip"})
            Skipped ==
                {n \in 2..Len(hseq) : LevelOf(hseq[n]) > LevelOf(hseq[n - 1]) + 1}
            At(n) ==
                {k \in 1..Len(skips) : skips[k].location = Label("Heading ", n)}
        IN  /\ Len(skips) = Cardinality(Skipped)
            /\ \A n \in Skipped :
                  /\ Cardinality(At(n)) = 1
                  /\ \A k \in At(n) :
                        /\ skips[k].severity = "Medium"
                        /\ skips[k].description =
                              Jump(LevelOf(hseq[n - 1]), LevelOf(hseq[n]))
            /\ hseq = <<"h1", "h3">> =>
                  /\ Len(skips) = 1
                  /\ skips[1].description =
                        <<"Heading jumps from h", "1", " to h", "3">>
            /\ hseq = <<"h1", "h2", "h1">> =>
                  /\ skips = <<>>
                  /\ Count(Run, LAMBDA f : f.type = "Multiple H1") = 1
                  /\ \A k \in 1..Len(Run) :
                        Run[k].type = "Multiple H1" =>
                            Run[k].description = <<"Found ", "2", " h1 elements">>

\* Headings h2, h4, h1: one skip at the second heading, none for the drop
C3_Witness ==
    /\ pc = "done"
    /\ HeadingSeq = <<"h2", "h4", "h1">>
    /\ LET skips == OfTypes(Run, {"Heading Level Skip"})
       IN  /\ Len(skips) = 1
           /\ skips[1].location = Label("Heading ", 2)
           /\ skips[1].description = Jump(2, 4)

(***************************************************************************)
(* C4: an input with id="x" for which a label with for="x" exists          *)
(* anywhere in the document is never reported as Unlabeled Input, whether  *)
(* the label comes before or after it.                                     *)
(***************************************************************************)
FormTags == {"input", "textarea", "select"}

\* The 1-based position of node i among the form controls
FormIndex(i) == Cardinality({j \in Members(soup, FormTags) : j <= i})

\* Node i is reported as Unlabeled Input by the current invocation
Reported(i) ==
    \E k \in 1..Len(Run) :
        /\ Run[k].type = "Unlabeled Input"
        /\ Run[k].location = Label("Form input ", FormIndex(i))

HasAttr(i, key) == key \in DOMAIN soup[i].attrs

\* Some label of the document has for = the id of node i
LabelledByFor(i) ==
    /\ HasAttr(i, "id")
    /\ \E j \in 1..Len(soup) :
          /\ soup[j].tag = "label"
          /\ HasAttr(j, "for")
          /\ soup[j].attrs["for"] = soup[i].attrs["id"]

C4_LabelFor ==
    HasRun("check_form_labels") =>
        \A i \in 1..Len(soup) :
            /\ soup[i].tag = "input"
            /\ LabelledByFor(i)
            /\ soup[i].attrs["id"] # ""
            => ~Reported(i)

\* An input outside any label whose label follows it, next to an input that
\* is reported
C4_Witness ==
    /\ pc = "done"
    /\ \E i, j \in 1..Len(soup) :
          /\ i < j
          /\ soup[i].tag = "input" /\ soup[i].parent = 0
          /\ LabelledByFor(i)
          /\ soup[j].tag = "label"
          /\ soup[j].attrs["for"] = soup[i].attrs["id"]
          /\ ~Reported(i)
    /\ \E i \in 1..Len(soup) : soup[i].tag = "input" /\ Reported(i)

(***************************************************************************)
(* C5: an input, textarea or select whose type (default "text") is not     *)
(* hidden, submit or button gives exactly one Unlabeled Input finding      *)
(* (High) if and only if none of these hold: a label's for equals its id,  *)
(* it is inside a label, the aria-label key is present (any value), the    *)
(* aria-labelledby key is present (any value).  Elements of type hidden,   *)
(* submit or button give no finding.                                       *)
(***************************************************************************)
InsideLabel(i) ==
    \E a \in 1..Len(soup) : IsDescendant(soup, i, a) /\ soup[a].tag = "label"

Labelled(i) ==
    \/ LabelledByFor(i)
    \/ InsideLabel(i)
    \/ HasAttr(i, "aria-label")
    \/ HasAttr(i, "aria-labelledby")

Skipped(i) ==
    /\ HasAttr(i, "type")
    /\ soup[i].attrs["type"] \in {"hidden", "submit", "button"}

C5_FormLabels ==
    HasRun("check_form_labels") =>
        \A i \in Members(soup, FormTags) :
            LET n == Count(Run, LAMBDA f :
                        /\ f.type = "Unlabeled Input"
                        /\ f.location = Label("Form input ", FormIndex(i)))
            IN  /\ n = IF ~Skipped(i) /\ ~Labelled(i) THEN 1 ELSE 0
                /\ Reported(i) =>
                      \A k \in 1..Len(Run) :
                          Run[k].type = "Unlabeled Input" =>
                              Run[k].severity = "High"

(***************************************************************************)
(* C6: every a element gives a Link Without Href finding (Medium) if and   *)
(* only if its href key is absent (an empty href is not reported), and an  *)
(* Empty Link Text finding (High) if and only if its trimmed text is empty *)
(* and its aria-label key is absent; when both hold, Link Without Href     *)
(* comes first and both carry the same "Link n" location.                  *)
(***************************************************************************)
LinkIndex(i) == Cardinality({j \in Members(soup, {"a"}) : j <= i})

\* The positions in fs of the findings of the given type about link i
LinkFindings(fs, i, type) ==
    {k \in 1..Len(fs) :
        /\ fs[k].type = type
        /\ fs[k].location = Label("Link ", LinkIndex(i))}

\* The subtree text of node i has no character other than white space
TextBlank(i) ==
    \A j \in 1..Len(soup) :
        (j = i \/ IsDescendant(soup, j, i)) => Blank(soup[j].text)

C6_Links ==
    HasRun("check_links") =>
        LET fs == OfTypes(Run, {"Link Without Href", "Empty Link Text"})
        IN  \A i \in Members(soup, {"a"}) :
                LET noHref  == LinkFindings(fs, i, "Link Without Href")
                    noText  == LinkFindings(fs, i, "Empty Link Text")
                IN  /\ Cardinality(noHref) =
                          IF ~HasAttr(i, "href") THEN 1 ELSE 0
                    /\ Cardinality(noText) =
                          IF TextBlank(i) /\ ~HasAttr(i, "aria-label")
                          THEN 1 ELSE 0
                    /\ \A k \in noHref : fs[k].severity = "Medium"
                    /\ \A k \in noText : fs[k].severity = "High"
                    /\ \A k \in noHref, j \in noText : k < j

(***************************************************************************)
(* C7: every table gives a Table Without Headers finding (Medium) if and   *)
(* only if it has no th descendant, and a Table Without Caption finding    *)
(* (Low) if and only if it has no caption as a direct child; the caption   *)
(* of a nested table does not count for the outer table.                   *)
(***************************************************************************)
TableIndex(i) == Cardinality({j \in Members(soup, {"table"}) : j <= i})

TableFindings(fs, i, type) ==
    {k \in 1..Len(fs) :
        /\ fs[k].type = type
        /\ fs[k].location = Label("Table ", TableIndex(i))}

C7_Tables ==
    HasRun("check_tables") =>
        LET fs == OfTypes(Run, {"Table Without Headers", "Table Without Caption"})
        IN  \A i \in Members(soup, {"table"}) :
                LET noHeaders == TableFindings(fs, i, "Table Without Headers")
                    noCaption == TableFindings(fs, i, "Table Without Caption")
                    hasTh ==
                        \E j \in 1..Len(soup) :
                            soup[j].tag = "th" /\ IsDescendant(soup, j, i)
                    hasCaption ==
                        \E j \in 1..Len(soup) :
                            soup[j].tag = "caption" /\ soup[j].parent = i
                IN  /\ Cardinality(noHeaders) = IF hasTh THEN 0 ELSE 1
                    /\ Cardinality(noCaption) = IF hasCaption THEN 0 ELSE 1
                    /\ \A k \in noHeaders : fs[k].severity = "Medium"
                    /\ \A k \in noCaption : fs[k].severity = "Low"

(***************************************************************************)
(* C8: a div or span with an onclick key gives exactly one Non-semantic    *)
(* Clickable finding (High) if and only if its role is absent or not one   *)
(* of button, link, or its tabindex is absent or "-1"; the description     *)
(* lists the failed conditions, role first, comma-joined; a div or span    *)
(* without onclick is never reported.                                      *)
(***************************************************************************)
\* The clickable elements the way the check numbers them: divs, then spans
ClickIndex(i) ==
    IF soup[i].tag = "div"
    THEN Cardinality({j \in Members(soup, {"div"}) :
                         HasAttr(j, "onclick") /\ j <= i})
    ELSE Cardinality({j \in Members(soup, {"div"}) : HasAttr(j, "onclick")})
         + Cardinality({j \in Members(soup, {"span"}) :
                           HasAttr(j, "onclick") /\ j <= i})

RoleDeficient(i) ==
    ~HasAttr(i, "role") \/ soup[i].attrs["role"] \notin {"button", "link"}

KeyboardInaccessible(i) ==
    ~HasAttr(i, "tabindex") \/ soup[i].attrs["tabindex"] = "-1"

ClickDescription(i) ==
    <<"Clickable ", soup[i].tag, " element with issues: ">>
    \o (IF RoleDeficient(i) /\ KeyboardInaccessible(i)
        THEN <<"missing appropriate role", ", ", "not keyboard accessible">>
        ELSE IF RoleDeficient(i) THEN <<"missing appropriate role">>
        ELSE <<"not keyboard accessible">>)

C8_Clickable ==
    HasRun("check_clickable_elements") =>
        LET fs == OfTypes(Run, {"Non-semantic Clickable"})
            Clickable ==
                {i \in Members(soup, {"div", "span"}) : HasAttr(i, "onclick")}
            At(i) ==
                {k \in 1..Len(fs) :
                    fs[k].location = Label("Clickable element ", ClickIndex(i))}
        IN  /\ \A i \in Clickable :
                  /\ Cardinality(At(i)) =
                        IF RoleDeficient(i) \/ KeyboardInaccessible(i)
                        THEN 1 ELSE 0
                  /\ \A k \in At(i) :
                        /\ fs[k].severity = "High"
                        /\ fs[k].description = ClickDescription(i)
            /\ \A k \in 1..Len(fs) : \E i \in Clickable : k \in At(i)

\* A div with neither role nor tabindex is reported with both conditions, a
\* span with role link and tabindex "-1" with the second only, and a div
\* with role button and tabindex "0" is not reported
C8_Witness ==
    /\ pc = "done"
    /\ LET fs == OfTypes(Run, {"Non-semantic Clickable"})
       IN  /\ Len(fs) = 2
           /\ fs[1].description =
                 <<"Clickable ", "div", " element with issues: ",
                   "missing appropriate role", ", ", "not keyboard accessible">>
           /\ fs[2].description =
                 <<"Clickable ", "span", " element with issues: ",
                   "not keyboard accessible">>
    /\ \E i \in 1..Len(soup) :
          /\ soup[i].tag = "div" /\ HasAttr(i, "onclick")
          /\ ~RoleDeficient(i) /\ ~KeyboardInaccessible(i)

(***************************************************************************)
(* C9: the findings of one analyze() are those of the seven checks in the  *)
(* order Images, Headings, Form Labels, Clickable Elements, Color          *)
(* Contrast, Links, Tables, and within each check the findings about       *)
(* elements come in the document order of those elements.                  *)
(***************************************************************************)
\* The number of the check that emits findings of the type
CheckOf(type) ==
    CASE type \in ImageTypes -> 1
      [] type \in HeadingTypes -> 2
      [] type = "Unlabeled Input" -> 3
      [] type = "Non-semantic Clickable" -> 4
      [] type = "Potential Contrast Issue" -> 5
      [] type \in {"Link Without Href", "Empty Link Text"} -> 6
      [] type \in {"Table Without Headers", "Table Without Caption"} -> 7

IndexAmong(S, i) == Cardinality({j \in S : j <= i})

\* Finding f is about node i
Concerns(f, i) ==
    CASE f.type \in ImageTypes ->
            /\ soup[i].tag = "img"
            /\ f.location = Label("Image ", IndexAmong(Members(soup, {"img"}), i))
      [] f.type = "Heading Level Skip" ->
            /\ soup[i].tag \in HeadingTags
            /\ f.location =
                  Label("Heading ", IndexAmong(Members(soup, HeadingTags), i))
      [] f.type = "Unlabeled Input" ->
            /\ soup[i].tag \in FormTags
            /\ f.location = Label("Form input ", FormIndex(i))
      [] f.type = "Non-semantic Clickable" ->
            /\ soup[i].tag \in {"div", "span"}
            /\ HasAttr(i, "onclick")
            /\ f.location = Label("Clickable element ", ClickIndex(i))
            /\ f.description = ClickDescription(i)
      [] f.type = "Potential Contrast Issue" ->
            /\ HasAttr(i, "style")
            /\ f.location =
                  Label("Styled element ",
                        IndexAmong({j \in 1..Len(soup) : HasAttr(j, "style")}, i))
      [] f.type \in {"Link Without Href", "Empty Link Text"} ->
            /\ soup[i].tag = "a"
            /\ f.location = Label("Link ", LinkIndex(i))
      [] f.type \in {"Table Without Headers", "Table Without Caption"} ->
            /\ soup[i].tag = "table"
            /\ f.location = Label("Table ", TableIndex(i))
      [] OTHER -> FALSE

\* No finding of a later check precedes a finding of an earlier check
CheckOrder ==
    \A k, j \in 1..Len(Run) :
        k < j => CheckOf(Run[k].type) <= CheckOf(Run[j].type)

\* The findings of the checks in Checks follow the document order of the
\* elements they are about
DocumentOrder(Checks) ==
    \A k, j \in 1..Len(Run) :
        /\ k < j
        /\ CheckOf(Run[k].type) = CheckOf(Run[j].type)
        /\ CheckOf(Run[k].type) \in Checks
        => \A a, b \in 1..Len(soup) :
              Concerns(Run[k], a) /\ Concerns(Run[j], b) => a <= b

\* Every finding that is not about the document as a whole is about an
\* element of the document
AboutElements ==
    \A k \in 1..Len(Run) :
        Run[k].type \notin {"No Headings", "Missing H1", "Multiple H1"} =>
            \E i \in 1..Len(soup) : Concerns(Run[k], i)

\* The claim as stated: document order within every check
C9_AsStated == CheckOrder /\ AboutElements /\ DocumentOrder(1..7)

\* C9 as amended: check order; document order within every check but
\* Clickable Elements, where the findings about divs, in document order,
\* precede the findings about spans, in document order
C9_Ordering ==
    /\ CheckOrder
    /\ AboutElements
    /\ DocumentOrder((1..7) \ {4})
    /\ \A k, j \in 1..Len(Run) :
          /\ k < j
          /\ Run[k].type = "Non-semantic Clickable"
          /\ Run[j].type = "Non-semantic Clickable"
          => \A a, b \in 1..Len(soup) :
                Concerns(Run[k], a) /\ Concerns(Run[j], b) =>
                    \/ soup[a].tag = "div" /\ soup[b].tag = "span"
                    \/ soup[a].tag = soup[b].tag /\ a < b

\* A span precedes a div in the document, both are reported, and the run
\* has findings of at least four checks
C9_Witness ==
    /\ pc = "done"
    /\ Cardinality({CheckOf(Run[k].type) : k \in 1..Len(Run)}) >= 4
    /\ \E k, j \in 1..Len(Run) : \E a, b \in 1..Len(soup) :
          /\ k < j /\ b < a
          /\ Run[k].type = "Non-semantic Clickable" /\ Concerns(Run[k], a)
          /\ Run[j].type = "Non-semantic Clickable" /\ Concerns(Run[j], b)

(***************************************************************************)
(* C10: every analyze() on the same markup returns the same list: the      *)
(* second result is not extended by the findings of the first, also when   *)
(* analyze() is called again on the same instance.                         *)
(***************************************************************************)
C10_Idempotent ==
    \A k \in 1..Len(results) : results[k] = results[1]

(***************************************************************************)
(* C11: in every reachable state of the findings list, the severity of     *)
(* each finding is one of High, Medium, Low and is the one fixed for its   *)
(* type; so the caller's High, Medium and Low filters are pairwise         *)
(* disjoint, each keeps the order of the list, and their sizes sum to the  *)
(* number of findings.                                                     *)
(***************************************************************************)
Severities == {"High", "Medium", "Low"}

HighTypes ==
    {"Missing Alt Text", "No Headings", "Missing H1", "Unlabeled Input",
     "Non-semantic Clickable", "Empty Link Text"}

MediumTypes ==
    {"Multiple H1", "Heading Level Skip", "Potential Contrast Issue",
     "Link Without Href", "Table Without Headers"}

LowTypes == {"Empty Alt Text", "Table Without Caption"}

\* The positions of fs whose finding has the severity
PositionsOf(fs, severity) == {k \in 1..Len(fs) : fs[k].severity = severity}

\* part is what remains of fs when only the positions in keep are kept, in
\* the order of fs
KeepsOrder(part, fs, keep) ==
    /\ Len(part) = Cardinality(keep)
    /\ \A k \in keep :
          part[Cardinality({j \in keep : j <= k})] = fs[k]

C11_Severity ==
    LET high   == high_issues(issues)
        medium == medium_issues(issues)
        low    == low_issues(issues)
    IN  /\ \A k \in 1..Len(issues) :
              /\ issues[k].severity \in Severities
              /\ issues[k].type \in HighTypes \cup MediumTypes \cup LowTypes
              /\ issues[k].type \in HighTypes => issues[k].severity = "High"
              /\ issues[k].type \in MediumTypes => issues[k].severity = "Medium"
              /\ issues[k].type \in LowTypes => issues[k].severity = "Low"
        /\ SeqToSet(high) \cap SeqToSet(medium) = {}
        /\ SeqToSet(high) \cap SeqToSet(low) = {}
        /\ SeqToSet(medium) \cap SeqToSet(low) = {}
        /\ KeepsOrder(high, issues, PositionsOf(issues, "High"))
        /\ KeepsOrder(medium, issues, PositionsOf(issues, "Medium"))
        /\ KeepsOrder(low, issues, PositionsOf(issues, "Low"))
        /\ Len(high) + Len(medium) + Len(low) = Len(issues)

\* analyze() has returned a list where a Low finding precedes a High one and
\* a Medium one, and each filter keeps something
C11_Witness ==
    /\ pc = "done"
    /\ Len(high_issues(issues)) >= 2
    /\ medium_issues(issues) # <<>>
    /\ low_issues(issues) # <<>>
    /\ \E k, j, l \in 1..Len(issues) :
          /\ k < j /\ j < l
          /\ issues[k].severity = "Low"
          /\ issues[j].severity = "High"
          /\ issues[l].severity = "Medium"

====
